---- MODULE Spec2Model ----
(***************************************************************************)
(* Model of lisfan/data-model: the DataModel class (schema-driven field    *)
(* stores behind accessor properties), the Storer, and the Watcher.        *)
(*                                                                         *)
(* JavaScript values are records [k, v]: k is the kind and v a number (the *)
(* numeric value, a string index, or a heap address).  Arrays and plain    *)
(* objects live in `heap` so that reference identity (===) and aliasing    *)
(* are part of the model.                                                  *)
(***************************************************************************)
EXTENDS Integers, Sequences, FiniteSets, TLC

\* ---------------------------------------------------------------- bounds
\* number of public operations (construction included) in one behaviour
MaxClock == 3
\* number of heap cells (arrays and plain objects that can exist)
HeapSize == 14
\* number of Watcher.emit calls on the stand-alone watcher
MaxEmits == 2
\* number of nested calls of a field's setter that exhaust the call stack
MaxStack == 3

\* ---------------------------------------------------------------- values
Undef == [k |-> "undef", v |-> 0]
Null == [k |-> "null", v |-> 0]
NaN == [k |-> "nan", v |-> 0]
Absent == [k |-> "absent", v |-> 0]
Num(n) == [k |-> "num", v |-> n]
Str(n) == [k |-> "str", v |-> n]
Bool(b) == [k |-> "bool", v |-> IF b THEN 1 ELSE 0]
Ref(a) == [k |-> "ref", v |-> a]
\* the object built by recursiveDefineObjectProperty over the data at
\* address a (a = 0: over a value that is not an array or object)
View(a) == [k |-> "view", v |-> a]

Addrs == 1..HeapSize
\* property names of nested plain objects, in a fixed enumeration order
PKeyOrder == <<"name", "age", "sub">>
PKeys == {PKeyOrder[i] : i \in 1..Len(PKeyOrder)}
NoProps == [p \in PKeys |-> Absent]
FreeCell == [kind |-> "free", props |-> NoProps, elems |-> <<>>]
ObjCell(props) == [kind |-> "obj", props |-> props, elems |-> <<>>]
ArrCell(elems) == [kind |-> "arr", props |-> NoProps, elems |-> elems]

\* validation.isPlainObject / validation.isArray / validation.isUndefined
isPlainObject(h, val) == val.k = "view" \/ (val.k = "ref" /\ h[val.v].kind = "obj")
isArray(h, val) == val.k = "ref" /\ h[val.v].kind = "arr"
isUndefined(val) == val.k = "undef"

\* the === operator: identity for objects, value equality for primitives,
\* NaN equal to nothing; two accessor objects built by separate reads are
\* never the same object
StrictEq(a, b) == a = b /\ a.k \notin {"nan", "view"}

\* ToBoolean, as used by `a || b`
Truthy(val) ==
  CASE val.k \in {"undef", "null", "nan", "absent"} -> FALSE
    [] val.k \in {"num", "str", "bool"} -> val.v # 0
    [] OTHER -> TRUE

\* obj[key] for a possibly missing property (missing reads as undefined)
PropOf(h, val, p) ==
  IF val.k = "ref" /\ h[val.v].props[p] # Absent THEN h[val.v].props[p] ELSE Undef

\* the next cell handed out by an object or array literal
Alloc(h) == CHOOSE a \in Addrs : h[a].kind = "free" /\ \A b \in Addrs : h[b].kind = "free" => a <= b
HasFree(h, n) == Cardinality({a \in Addrs : h[a].kind = "free"}) >= n

\* ---------------------------------------------------------------- schema
\* static STRUCTURE and static IMMUTABLE_STRUCTURE of the model class, in the
\* shape of ExtendDataModel: scalars, a nested plain object, an array, and a
\* key ("kind") declared in both.
\*   STRUCTURE = {count: 0, profile: {name: 'x', age: 1}, list: [1], kind: 10}
\*   IMMUTABLE_STRUCTURE = {kind: {name: 'k', sub: {age: 30}}, isHandsome: true}
StructureKeyOrder == <<"count", "profile", "list", "kind">>
ImmutableKeyOrder == <<"kind", "isHandsome">>
STRUCTURE == [count |-> Num(0), profile |-> Ref(1), list |-> Ref(2), kind |-> Num(10)]
IMMUTABLE_STRUCTURE == [kind |-> Ref(3), isHandsome |-> Bool(TRUE)]
StructureKeys == DOMAIN STRUCTURE
ImmutableKeys == DOMAIN IMMUTABLE_STRUCTURE

\* objects owned by the calling application, handed in as data
CallerObj == Ref(5)
CallerArr == Ref(6)

\* the heap before any instance exists: schema defaults and caller objects
SchemaHeap ==
  [a \in Addrs |->
     CASE a = 1 -> ObjCell([NoProps EXCEPT !["name"] = Str(1), !["age"] = Num(1)])
       [] a = 2 -> ArrCell(<<Num(1)>>)
       [] a = 3 -> ObjCell([NoProps EXCEPT !["name"] = Str(2), !["sub"] = Ref(4)])
       [] a = 4 -> ObjCell([NoProps EXCEPT !["age"] = Num(30)])
       [] a = 5 -> ObjCell([NoProps EXCEPT !["age"] = Num(2)])
       [] a = 6 -> ArrCell(<<Num(2)>>)
       [] OTHER -> FreeCell]

\* getUnionStructure: {...STRUCTURE, ...IMMUTABLE_STRUCTURE}; the key order of
\* the spread is STRUCTURE's keys, then the keys only IMMUTABLE_STRUCTURE has
UnionKeyOrder ==
  StructureKeyOrder \o SelectSeq(ImmutableKeyOrder, LAMBDA key : key \notin StructureKeys)
getUnionStructure ==
  [key \in StructureKeys \cup ImmutableKeys |->
     IF key \in ImmutableKeys THEN IMMUTABLE_STRUCTURE[key] ELSE STRUCTURE[key]]
UnionKeys == DOMAIN getUnionStructure

\* ---------------------------------------------------------------- ValueOps
\* Results of heap-changing helpers are records [h, v, threw].
Ok(h, val) == [h |-> h, v |-> val, threw |-> FALSE]
Threw(h) == [h |-> h, v |-> Undef, threw |-> TRUE]

RECURSIVE cloneDeep(_, _)
RECURSIVE cloneProps(_, _, _, _)
RECURSIVE cloneElems(_, _, _, _)

\* newVal[key] = cloneDeep(value) for the properties keys[i..] of src
cloneProps(h, src, dst, i) ==
  IF i > Len(PKeyOrder) THEN h
  ELSE LET p == PKeyOrder[i] IN
       IF h[src].props[p] = Absent THEN cloneProps(h, src, dst, i + 1)
       ELSE LET r == cloneDeep(h, h[src].props[p])
                isArr == r.h[src].kind = "arr"
                h2 == IF isArr
                      THEN [r.h EXCEPT ![dst].elems = Append(@, r.v)]
                      ELSE [r.h EXCEPT ![dst].props[p] = r.v]
            IN cloneProps(h2, src, dst, i + 1)

\* the index entries of an array come first in Object.entries
cloneElems(h, src, dst, i) ==
  IF i > Len(h[src].elems) THEN h
  ELSE LET r == cloneDeep(h, h[src].elems[i])
       IN cloneElems([r.h EXCEPT ![dst].elems = Append(@, r.v)], src, dst, i + 1)

\* cloneDeep as it would be if the entries were copied without recursion
cloneDeepShallow(h, val) ==
  IF ~isArray(h, val) /\ ~isPlainObject(h, val) THEN Ok(h, val)
  ELSE LET a == Alloc(h) IN Ok([h EXCEPT ![a] = h[val.v]], Ref(a))

\* _actions.cloneDeep: arrays and plain objects are copied entry by entry
\* (Object.values of the copy for an array), anything else is returned as is
cloneDeep(h, val) ==
  IF ~isArray(h, val) /\ ~isPlainObject(h, val) THEN Ok(h, val)
  ELSE LET a == Alloc(h)
           h0 == [h EXCEPT ![a] = [kind |-> h[val.v].kind, props |-> NoProps, elems |-> <<>>]]
           h1 == cloneElems(h0, val.v, a, 1)
           h2 == cloneProps(h1, val.v, a, 1)
       IN Ok(h2, Ref(a))

RECURSIVE merge(_, _, _)
RECURSIVE mergeKeys(_, _, _, _)

\* the forEach body as it would be if only an undefined source entry were
\* skipped
mergeKeysDefined(h, targetDict, mergeDict, i) ==
  IF i > Len(PKeyOrder) THEN Ok(h, targetDict)
  ELSE LET p == PKeyOrder[i] IN
       IF h[mergeDict.v].props[p] = Absent THEN mergeKeys(h, targetDict, mergeDict, i + 1)
       ELSE IF targetDict.k \in {"null", "undef"} THEN Threw(h)
       ELSE LET tv == PropOf(h, targetDict, p)
                sv == h[mergeDict.v].props[p]
            IN IF isPlainObject(h, tv) /\ isPlainObject(h, sv)
               THEN LET r == merge(h, tv, sv)
                    IN IF r.threw THEN r ELSE mergeKeys(r.h, targetDict, mergeDict, i + 1)
               ELSE IF targetDict.k # "ref" THEN Threw(h)
               ELSE mergeKeys([h EXCEPT ![targetDict.v].props[p] = IF isUndefined(sv) THEN tv ELSE sv],
                              targetDict, mergeDict, i + 1)

\* the body of Object.keys(mergeDict).forEach for the keys from index i on
mergeKeys(h, targetDict, mergeDict, i) ==
  IF i > Len(PKeyOrder) THEN Ok(h, targetDict)
  ELSE LET p == PKeyOrder[i] IN
       IF h[mergeDict.v].props[p] = Absent THEN mergeKeys(h, targetDict, mergeDict, i + 1)
       \* reading targetDict[key] of null or undefined is a TypeError
       ELSE IF targetDict.k \in {"null", "undef"} THEN Threw(h)
       ELSE LET tv == PropOf(h, targetDict, p)
                sv == h[mergeDict.v].props[p]
            IN IF isPlainObject(h, tv) /\ isPlainObject(h, sv)
               THEN LET r == merge(h, tv, sv)
                    IN IF r.threw THEN r ELSE mergeKeys(r.h, targetDict, mergeDict, i + 1)
               \* assigning a property of a primitive throws in module (strict) code
               ELSE IF targetDict.k # "ref" THEN Threw(h)
               ELSE mergeKeys([h EXCEPT ![targetDict.v].props[p] = IF Truthy(sv) THEN sv ELSE tv],
                              targetDict, mergeDict, i + 1)

\* _actions.merge(targetDict, mergeDict): merges in place, returns targetDict
merge(h, targetDict, mergeDict) == mergeKeys(h, targetDict, mergeDict, 1)

\* getValue as it would be if the default were used without cloneDeep
getValueShared(h, defaultVal, newVal) ==
  IF ~isUndefined(newVal)
  THEN IF isPlainObject(h, newVal)
       THEN merge(h, defaultVal, newVal)
       ELSE Ok(h, newVal)
  ELSE Ok(h, defaultVal)

\* _actions.getValue(defaultVal, newVal)
getValue(h, defaultVal, newVal) ==
  IF ~isUndefined(newVal)
  THEN IF isPlainObject(h, newVal)
       THEN LET c == cloneDeep(h, defaultVal) IN merge(c.h, c.v, newVal)
       ELSE Ok(h, newVal)
  ELSE cloneDeep(h, defaultVal)

RECURSIVE reducePath(_, _, _, _, _)
\* the reducer of setValueByPath at segment `index` of pathList, with the
\* accumulator `result`; the value returned by the last step is what reduce
\* returns
reducePath(h, result, pathList, index, value) ==
  LET key == pathList[index] IN
  IF index = Len(pathList)
  THEN Ok([h EXCEPT ![result.v].props[key] = value], result)
  ELSE LET cur == PropOf(h, result, key)
       IN IF ~Truthy(cur) \/ ~isPlainObject(h, cur)
          THEN LET a == Alloc(h)
                   h1 == [h EXCEPT ![a] = ObjCell(NoProps), ![result.v].props[key] = Ref(a)]
               IN reducePath(h1, Ref(a), pathList, index + 1, value)
          ELSE reducePath(h, cur, pathList, index + 1, value)

\* _actions.setValueByPath(target, path, value), path given as the segments
\* of path.split('.')
setValueByPath(h, target, pathList, value) == reducePath(h, target, pathList, 1, value)

\* ---------------------------------------------------------------- state
VARIABLES
  pc,                \* "new" before the constructor ran, then "ready" or "failed"
  options,           \* self.$options: [given, data], the data passed to the constructor
  heap,              \* arrays and plain objects, by address
  storers,           \* self._storers: key -> Storer._data
  desc,              \* accessor installed on the instance: key -> "object" | "plain"
  watchers,          \* self._watchers: key -> Watcher
  createdTimeStamp,  \* self.$createdTimeStamp
  updatedTimeStamp,  \* self.$updatedTimeStamp
  now,               \* the clock read by new Date().getTime()
  last,              \* what the most recent public operation did
  watcher,           \* a Watcher used on its own
  emitted,           \* what the most recent call on `watcher` did
  UIDCounter,        \* the module's counter of instances
  uids,              \* the $uid of every instance, in construction order
  applied,           \* a helper function applied on its own: its arguments and result
  computers,         \* self._computers: key -> Computer
  cstep,             \* what the most recent operation on a computed field did
  view,              \* an accessor object the caller obtained by reading a field and kept
  peer               \* a second instance of the same class sharing the heap

vars == <<pc, options, heap, storers, desc, watchers, createdTimeStamp, updatedTimeStamp, now, last,
          watcher, emitted, UIDCounter, uids, applied, computers, cstep, view, peer>>
modelVars == <<pc, options, heap, storers, desc, watchers, createdTimeStamp, updatedTimeStamp, now, last>>
watcherVars == <<watcher, emitted>>
uidVars == <<UIDCounter, uids>>
computedVars == <<computers, cstep>>
viewVars == <<view>>
peerVars == <<peer>>

EmptyMap == [key \in {} |-> Undef]
Entry(key, val) == [key |-> key, val |-> val]
\* data[key] for a data object given as its entries in key order
Lookup(data, key) ==
  IF \E i \in 1..Len(data) : data[i].key = key
  THEN data[CHOOSE i \in 1..Len(data) : data[i].key = key].val
  ELSE Undef

Snapshot == [storers |-> storers, watchers |-> watchers, updated |-> updatedTimeStamp, heap |-> heap]
NoLast ==
  [op |-> "none", key |-> "", val |-> Undef, data |-> <<>>, opts |-> <<>>, threw |-> FALSE,
   ret |-> "none", warns |-> <<>>, calls |-> <<>>, seen |-> EmptyMap,
   pre |-> [storers |-> EmptyMap, watchers |-> EmptyMap, updated |-> 0, heap |-> SchemaHeap]]
NoWatcher == [built |-> FALSE, data |-> Undef, deep |-> FALSE, immediate |-> FALSE, handler |-> "ok"]
NoEmitted ==
  [op |-> "none", n |-> 0, newData |-> Undef, calls |-> <<>>, threw |-> FALSE, pre |-> NoWatcher,
   prevNewData |-> Undef, prevFired |-> FALSE, prevThrew |-> FALSE]

ModelInit ==
  /\ pc = "new"
  /\ options = [given |-> FALSE, data |-> <<>>]
  /\ heap = SchemaHeap
  /\ storers = EmptyMap
  /\ desc = EmptyMap
  /\ watchers = EmptyMap
  /\ createdTimeStamp = 0
  /\ updatedTimeStamp = 0
  /\ now = 0
  /\ last = NoLast

WatcherInit ==
  /\ watcher = NoWatcher
  /\ emitted = NoEmitted

NoApplied == [op |-> "none", args |-> <<>>, h |-> SchemaHeap, r |-> Ok(SchemaHeap, Undef)]
UidInit ==
  /\ UIDCounter = 0
  /\ uids = <<>>

NoCstep ==
  [op |-> "none", n |-> 0, key |-> "", form |-> "", val |-> Undef, ret |-> Undef, gets |-> 0,
   sets |-> <<>>, errors |-> <<>>, threw |-> FALSE, reads |-> EmptyMap, prevReads |-> EmptyMap,
   pre |-> [computers |-> EmptyMap, storers |-> EmptyMap, watchers |-> EmptyMap, updated |-> 0]]
ComputedInit ==
  /\ computers = EmptyMap
  /\ cstep = NoCstep

\* no accessor object of a field is held by the caller
NoView == [held |-> FALSE, key |-> "", data |-> Undef, last |-> "none", val |-> Undef]
ViewInit == view = NoView

\* no second instance of the class exists
NoPeer == [built |-> FALSE, storers |-> EmptyMap, desc |-> EmptyMap]
PeerInit == peer = NoPeer

Init == ModelInit /\ WatcherInit /\ UidInit /\ applied = NoApplied /\ ComputedInit /\ ViewInit /\ PeerInit

\* ---------------------------------------------------------------- Watcher
\* a call of the user's handler; a handler of kind "throw" raises
Call(handler, args) == [handler |-> handler, args |-> args]

\* emit as it would be if the baseline were not overwritten after the call
emitKeepsBaseline(h, w, newData) ==
  IF StrictEq(w.data, newData) /\ (~isPlainObject(h, newData) \/ ~w.deep)
  THEN [w |-> w, calls |-> <<>>, threw |-> FALSE]
  ELSE [w |-> w, calls |-> <<Call(w.handler, <<w.data, newData>>)>>,
        threw |-> w.handler = "throw"]

\* Watcher.emit(newData): result [w, calls, threw]
emit(h, w, newData) ==
  IF StrictEq(w.data, newData) /\ ~isPlainObject(h, newData)
  THEN [w |-> w, calls |-> <<>>, threw |-> FALSE]
  ELSE IF StrictEq(w.data, newData) /\ isPlainObject(h, newData) /\ ~w.deep
  THEN [w |-> w, calls |-> <<>>, threw |-> FALSE]
  ELSE [w |-> IF w.handler = "throw" THEN w ELSE [w EXCEPT !.data = newData],
        calls |-> <<Call(w.handler, <<w.data, newData>>)>>,
        threw |-> w.handler = "throw"]

\* the constructor as it would be if `immediate` went through emit(this.$data)
newWatcherEmitsFirst(wopts) ==
  LET w == [built |-> TRUE, data |-> wopts.data, deep |-> wopts.deep,
            immediate |-> wopts.immediate, handler |-> wopts.handler]
  IN IF w.immediate /\ ~StrictEq(w.data, w.data)
     THEN [w |-> w, calls |-> <<Call(w.handler, <<w.data, w.data>>)>>, threw |-> w.handler = "throw"]
     ELSE [w |-> w, calls |-> <<>>, threw |-> FALSE]

\* new Watcher(options): result [w, calls, threw]
newWatcher(wopts) ==
  LET w == [built |-> TRUE, data |-> wopts.data, deep |-> wopts.deep,
            immediate |-> wopts.immediate, handler |-> wopts.handler]
  IN IF w.immediate
     THEN [w |-> w, calls |-> <<Call(w.handler, <<w.data>>)>>, threw |-> w.handler = "throw"]
     ELSE [w |-> w, calls |-> <<>>, threw |-> FALSE]

\* ---------------------------------------------------------------- DataModel
\* initValue as it would be if STRUCTURE were consulted before
\* IMMUTABLE_STRUCTURE
initValueStructureFirst(h, key, arg) ==
  IF key \in StructureKeys
  THEN IF ~arg.given THEN Threw(h) ELSE getValue(h, STRUCTURE[key], Lookup(arg.data, key))
  ELSE getValue(h, IMMUTABLE_STRUCTURE[key], Undef)

\* the value init stores for one key of the union structure; arg is the
\* constructor's argument [given, data]
initValue(h, key, arg) ==
  IF key \in ImmutableKeys THEN getValue(h, IMMUTABLE_STRUCTURE[key], Undef)
  \* self.$options.data is undefined when no argument was passed
  ELSE IF ~arg.given THEN Threw(h)
  ELSE getValue(h, STRUCTURE[key], Lookup(arg.data, key))

RECURSIVE initStorers(_, _, _, _)
\* _actions.init: one Storer per key of the union structure, in key order
initStorers(h, st, i, arg) ==
  IF i > Len(UnionKeyOrder) THEN [h |-> h, st |-> st, threw |-> FALSE]
  ELSE LET key == UnionKeyOrder[i]
           r == initValue(h, key, arg)
       IN IF r.threw THEN [h |-> r.h, st |-> st, threw |-> TRUE]
          ELSE initStorers(r.h, (key :> r.v) @@ st, i + 1, arg)

\* _actions.defineDataProperty: the accessor pair chosen for each stored key
defineDataProperty(h, st) ==
  [key \in DOMAIN st |-> IF isPlainObject(h, st[key]) THEN "object" ELSE "plain"]

\* _actions.recursiveDefineObjectProperty(self, path, data): Object.keys(data)
\* throws for null and undefined, otherwise a fresh accessor object is built
recursiveDefineObjectProperty(data) ==
  IF data.k \in {"null", "undef"} THEN [threw |-> TRUE, v |-> Undef]
  ELSE [threw |-> FALSE, v |-> View(IF data.k = "ref" THEN data.v ELSE 0)]

\* a read of instance[key] through the installed getter: result [threw, v]
ReadProp(st, ds, key) ==
  IF key \notin DOMAIN ds THEN [threw |-> FALSE, v |-> Undef]
  ELSE IF ds[key] = "object" THEN recursiveDefineObjectProperty(st[key])
  ELSE [threw |-> FALSE, v |-> st[key]]

\* the $data getter: an object holding, for every key of the union
\* structure, the Storer's $data itself
getData(st) == [key \in UnionKeys |-> st[key]]

Warning(key, why) == [level |-> "warn", key |-> key, why |-> why]

\* Storer.update as it would be if a Storer that holds a container kept it
\* when another container is written
updateKeepsContainer(st, key, value) ==
  IF st[key].k = "ref" /\ value.k = "ref" THEN st ELSE [st EXCEPT ![key] = value]

\* Storer.update on the Storer of key
update(st, key, value) == [st EXCEPT ![key] = value]

\* setValue as it would be without the IMMUTABLE_STRUCTURE test
setValueUnguarded(self, key, value, t) ==
  IF key \notin StructureKeys
  THEN [self EXCEPT !.warns = Append(@, Warning(key, "not exist"))]
  ELSE [self EXCEPT !.storers = IF key \in DOMAIN @ THEN update(@, key, value) ELSE @,
                    !.updated = t]

\* DataModel.setValue(key, value) at time t, on self = [storers, updated, warns]
setValue(self, key, value, t) ==
  IF key \in ImmutableKeys
  THEN [self EXCEPT !.warns = Append(@, Warning(key, "not writable"))]
  ELSE IF key \notin StructureKeys
  THEN [self EXCEPT !.warns = Append(@, Warning(key, "not exist"))]
  ELSE [self EXCEPT !.storers = IF key \in DOMAIN @ THEN update(@, key, value) ELSE @,
                    !.updated = t]

\* pickData as it would be if it kept the writable keys only
pickDataWritable(data) == SelectSeq(data, LAMBDA e : e.key \in StructureKeys \ ImmutableKeys)

\* _actions.pickData: the entries of data whose key is in the union structure
pickData(data) == SelectSeq(data, LAMBDA e : e.key \in UnionKeys)

RECURSIVE setValues(_, _, _, _)
\* the forEach of updateData over the picked entries
setValues(self, entries, i, t) ==
  IF i > Len(entries) THEN self
  ELSE setValues(setValue(self, entries[i].key, entries[i].val, t), entries, i + 1, t)

\* updateData as it would be if it stored every entry of data itself
updateDataUnpicked(self, data, t) ==
  LET st == self.storers
      given == {data[i].key : i \in 1..Len(data)}
  IN [self EXCEPT !.storers = [k \in DOMAIN st \cup given |->
                                 IF k \in given THEN Lookup(data, k) ELSE st[k]],
                  !.updated = t]

\* DataModel.updateData(data)
updateData(self, data, t) == setValues(self, pickData(data), 1, t)

\* ---------------------------------------------------------------- inputs
\* constructor arguments
ConstructArgs ==
  { [given |-> FALSE, data |-> <<>>],
    [given |-> TRUE, data |-> <<>>],
    [given |-> TRUE, data |-> <<Entry("profile", CallerObj)>>],
    [given |-> TRUE, data |-> <<Entry("count", Num(2)), Entry("kind", Num(5)),
                                Entry("isHandsome", Bool(FALSE)), Entry("nope", Num(1))>>],
    [given |-> TRUE, data |-> <<Entry("list", CallerArr), Entry("kind", CallerObj)>>],
    [given |-> TRUE, data |-> <<Entry("count", CallerObj)>>] }
\* keys a caller passes to setValue
CallKeys == UnionKeys \cup {"nope"}
\* values a caller writes: scalars, its own containers, and the value the
\* field holds already
WriteValues(key) ==
  {Num(2), Null, CallerObj, CallerArr} \cup (IF key \in DOMAIN storers THEN {storers[key]} ELSE {})
UpdateInputs ==
  { <<Entry("count", Num(2)), Entry("profile", CallerObj)>>,
    <<Entry("nope", Num(2)), Entry("kind", Num(2)), Entry("list", CallerArr)>>,
    <<Entry("nope", Num(2))>> }
WatchOptions ==
  {[form |-> "function", deep |-> FALSE, immediate |-> FALSE]}
    \cup {[form |-> "object", deep |-> d, immediate |-> i] : d, i \in BOOLEAN}
Handlers == {"ok", "throw"}
WatchKeys == {"count", "profile", "list", "kind"}
NestedPaths == {<<"age">>, <<"sub", "age">>}

\* handlers that write the value they were notified of back to their own
\* field, by property assignment or by setValue
WriteBackHandlers == {"assignBack", "setValueBack"}

RECURSIVE writeBackSetter(_, _, _, _, _, _)
\* reactiveSetter(val) of a field whose watcher's handler writes newData back
\* to the field.  emit calls the handler before it assigns this._data, so the
\* write made inside the handler meets the old baseline; `depth` counts the
\* nested calls of the setter, and at MaxStack the call stack is exhausted
\* and the write throws a RangeError.
writeBackSetter(st, ws, h, key, val, depth) ==
  LET st1 == update(st, key, val)
      e == emit(h, ws[key], val)
  IN IF e.calls = <<>>
     THEN [storers |-> st1, watchers |-> ws, calls |-> <<>>, threw |-> FALSE, seen |-> st1,
           stamped |-> FALSE]
     ELSE IF ws[key].handler = "setValueBack"
     THEN LET inner == setValue([storers |-> st1, updated |-> 0, warns |-> <<>>], key, val, 1)
          IN [storers |-> inner.storers, watchers |-> [ws EXCEPT ![key] = e.w],
              calls |-> e.calls, threw |-> FALSE, seen |-> st1, stamped |-> inner.updated = 1]
     ELSE IF depth >= MaxStack
     THEN [storers |-> st1, watchers |-> ws, calls |-> e.calls, threw |-> TRUE, seen |-> st1,
           stamped |-> FALSE]
     ELSE LET inner == writeBackSetter(st1, ws, h, key, val, depth + 1)
          IN [storers |-> inner.storers,
              watchers |-> IF inner.threw THEN inner.watchers
                           ELSE [inner.watchers EXCEPT ![key] = e.w],
              calls |-> e.calls \o inner.calls, threw |-> inner.threw, seen |-> st1,
              stamped |-> FALSE]

\* the reactiveSetter as it would be if the watcher were notified before the
\* store is updated
reactiveSetterEmitsFirst(st, ws, h, key, val) ==
  LET e == IF key \in DOMAIN ws THEN emit(h, ws[key], val)
           ELSE [w |-> NoWatcher, calls |-> <<>>, threw |-> FALSE]
      st1 == IF e.threw THEN st ELSE update(st, key, val)
  IN [storers |-> st1,
      watchers |-> IF key \in DOMAIN ws THEN [ws EXCEPT ![key] = e.w] ELSE ws,
      calls |-> e.calls, threw |-> e.threw, seen |-> st1, stamped |-> FALSE]

\* reactiveSetter(val) of a top-level field: self._storers[key].update(val),
\* then self._watchers[key] && self._watchers[key].emit(val).  `seen` is the
\* store as it stands while emit, and so the handler, runs
reactiveSetter(st, ws, h, key, val) ==
  IF key \in DOMAIN ws /\ ws[key].handler \in WriteBackHandlers
  THEN writeBackSetter(st, ws, h, key, val, 1)
  ELSE LET st1 == update(st, key, val)
           e == IF key \in DOMAIN ws THEN emit(h, ws[key], val)
                ELSE [w |-> NoWatcher, calls |-> <<>>, threw |-> FALSE]
       IN [storers |-> st1,
           watchers |-> IF key \in DOMAIN ws THEN [ws EXCEPT ![key] = e.w] ELSE ws,
           calls |-> e.calls, threw |-> e.threw, seen |-> st1, stamped |-> FALSE]

\* $uid = UIDCounter++ as it would be without the increment
nextUidKept(counter) == [uid |-> counter, counter |-> counter]

\* the class field $uid = UIDCounter++: the uid given and the counter left
nextUid(counter) == [uid |-> counter, counter |-> counter + 1]

\* ---------------------------------------------------------------- actions
Tick == now' = now + 1
Did(op, key, val, data, opts, threw, warns, calls) ==
  [op |-> op, key |-> key, val |-> val, data |-> data, opts |-> opts, threw |-> threw,
   ret |-> IF threw THEN "throw" ELSE "self", warns |-> warns, calls |-> calls, seen |-> EmptyMap,
   pre |-> Snapshot]

\* the constructor's reading of its argument as it would be if the other
\* keys of an options wrapper were taken as data too
constructorOptionsSpread(raw) ==
  IF ~raw.given THEN [given |-> FALSE, data |-> <<>>]
  ELSE IF raw.wrapped.k # "object"
  THEN [given |-> TRUE,
        data |-> raw.entries \o (IF raw.wrapped.k = "value" THEN <<Entry("data", raw.wrapped.v)>>
                                 ELSE <<>>)]
  ELSE [given |-> TRUE, data |-> raw.wrapped.entries \o raw.entries]

\* the constructor's reading of its argument: a plain object whose `data`
\* entry is not a plain object becomes {data: argument}; one whose `data`
\* entry is a plain object is spread into $options, so $options.data is that
\* entry.  raw is [given, entries, wrapped]: the entries other than `data`,
\* and the `data` entry (absent, a value that is no plain object, or a plain
\* object given by its entries); the result is [given, data] with
\* data = $options.data
constructorOptions(raw) ==
  IF ~raw.given THEN [given |-> FALSE, data |-> <<>>]
  ELSE IF raw.wrapped.k # "object"
  THEN [given |-> TRUE,
        data |-> raw.entries \o (IF raw.wrapped.k = "value" THEN <<Entry("data", raw.wrapped.v)>>
                                 ELSE <<>>)]
  ELSE [given |-> TRUE, data |-> raw.wrapped.entries]

\* new Model(...) with $options.data = arg.data; app is the record kept of
\* the argument as the caller wrote it
ConstructWith(arg, app) ==
  /\ pc = "new"
  /\ now < MaxClock
  /\ Tick
  /\ options' = arg
  /\ LET r == initStorers(heap, EmptyMap, 1, arg)
     IN /\ heap' = r.h
        /\ storers' = r.st
        /\ pc' = IF r.threw THEN "failed" ELSE "ready"
        /\ desc' = IF r.threw THEN EmptyMap ELSE defineDataProperty(r.h, r.st)
        /\ last' = Did("new", "", Undef, arg.data, <<arg.given>>, r.threw, <<>>, <<>>)
  /\ createdTimeStamp' = now'
  /\ updatedTimeStamp' = now'
  /\ LET u == nextUid(UIDCounter)
     IN /\ uids' = Append(uids, [who |-> "self", uid |-> u.uid])
        /\ UIDCounter' = u.counter
  /\ applied' = app
  /\ UNCHANGED <<watchers, watcherVars, computedVars, viewVars, peerVars>>

\* new Model(arg) for an argument without a `data` entry
Construct(arg) == ConstructWith(arg, applied)

\* new Model(raw) for a plain-object argument that may have a `data` entry
ConstructRaw(raw) ==
  ConstructWith(constructorOptions(raw), [NoApplied EXCEPT !.op = "new", !.args = <<raw>>])

\* instance.setValue(key, value)
SetValue(key, value) ==
  /\ pc = "ready"
  /\ now < MaxClock
  /\ Tick
  /\ LET r == setValue([storers |-> storers, updated |-> updatedTimeStamp, warns |-> <<>>],
                       key, value, now')
     IN /\ storers' = r.storers
        /\ updatedTimeStamp' = r.updated
        /\ last' = Did("setValue", key, value, <<>>, <<>>, FALSE, r.warns, <<>>)
  /\ UNCHANGED <<pc, options, heap, desc, watchers, createdTimeStamp, watcherVars, uidVars, applied, computedVars, viewVars, peerVars>>

\* instance.updateData(data)
UpdateData(data) ==
  /\ pc = "ready"
  /\ now < MaxClock
  /\ Tick
  /\ LET r == updateData([storers |-> storers, updated |-> updatedTimeStamp, warns |-> <<>>],
                         data, now')
     IN /\ storers' = r.storers
        /\ updatedTimeStamp' = r.updated
        /\ last' = Did("updateData", "", Undef, data, <<>>, FALSE, r.warns, <<>>)
  /\ UNCHANGED <<pc, options, heap, desc, watchers, createdTimeStamp, watcherVars, uidVars, applied, computedVars, viewVars, peerVars>>

\* instance[key] = val: the reactiveSetter installed by defineDataProperty
AssignProp(key, val) ==
  /\ pc = "ready"
  /\ now < MaxClock
  /\ key \in DOMAIN desc
  /\ Tick
  /\ LET r == reactiveSetter(storers, watchers, heap, key, val)
     IN /\ storers' = r.storers
        /\ watchers' = r.watchers
        /\ updatedTimeStamp' = IF r.stamped THEN now' ELSE updatedTimeStamp
        /\ last' = [Did("assign", key, val, <<>>, <<>>, r.threw, <<>>, r.calls)
                      EXCEPT !.seen = r.seen]
  /\ UNCHANGED <<pc, options, heap, desc, createdTimeStamp, watcherVars, uidVars, applied, computedVars, viewVars, peerVars>>

\* the nested reactiveSetter as it would be if it notified the watcher of the
\* top-level field
nestedReactiveSetterEmits(ws, h, key, val) ==
  IF key \in DOMAIN ws
  THEN LET e == emit(h, ws[key], val)
       IN [watchers |-> [ws EXCEPT ![key] = e.w], calls |-> e.calls, threw |-> e.threw]
  ELSE [watchers |-> ws, calls |-> <<>>, threw |-> FALSE]

\* the reactiveSetter of a nested property: its body is empty, it neither
\* stores the value nor notifies a watcher
nestedReactiveSetter(ws, h, key, val) ==
  [watchers |-> ws, calls |-> <<>>, threw |-> FALSE]

\* instance[key].p = val and instance[key].p.q = val through the accessor
\* object of a field read
NestedAssign(key, path, val) ==
  /\ pc = "ready"
  /\ now < MaxClock
  /\ key \in DOMAIN desc
  /\ desc[key] = "object"
  /\ Tick
  /\ LET top == recursiveDefineObjectProperty(storers[key])
         child == PropOf(heap, storers[key], path[1])
         \* the intermediate read gives an accessor object, a raw array, or a
         \* value that cannot take a property
         failed == \/ top.threw
                   \/ Len(path) = 2 /\ ~isPlainObject(heap, child) /\ ~isArray(heap, child)
         raw == ~top.threw /\ Len(path) = 2 /\ isArray(heap, child)
         \* the assignment reaches a nested reactiveSetter when the parent is
         \* an accessor object
         n == IF failed \/ raw THEN [watchers |-> watchers, calls |-> <<>>, threw |-> FALSE]
              ELSE nestedReactiveSetter(watchers, heap, key, val)
     IN /\ heap' = IF raw THEN [heap EXCEPT ![child.v].props[path[2]] = val] ELSE heap
        /\ watchers' = n.watchers
        /\ last' = Did("nested", key, val, <<>>, path, failed \/ n.threw, <<>>, n.calls)
  /\ UNCHANGED <<pc, options, storers, desc, createdTimeStamp, updatedTimeStamp, watcherVars, uidVars, applied, computedVars, viewVars, peerVars>>

\* this._watchers[key] = ... as it would be if a watcher already attached to
\* the key were kept
installWatcherKeepsFirst(ws, key, w) == IF key \in DOMAIN ws THEN ws ELSE (key :> w) @@ ws

\* this._watchers[key] = new Watcher(watcherOptions)
installWatcher(ws, key, w) == (key :> w) @@ ws

\* instance.watch(key, options) with a handler of the given kind
Watch(key, opts, handler) ==
  /\ pc = "ready"
  /\ now < MaxClock
  /\ Tick
  /\ LET r == ReadProp(storers, desc, key)
         nw == newWatcher([data |-> r.v, deep |-> opts.deep,
                           immediate |-> opts.immediate, handler |-> handler])
     IN /\ watchers' = IF r.threw \/ nw.threw THEN watchers ELSE installWatcher(watchers, key, nw.w)
        /\ last' = Did("watch", key, r.v, <<>>, <<opts, handler>>, r.threw \/ nw.threw, <<>>,
                       IF r.threw THEN <<>> ELSE nw.calls)
  /\ UNCHANGED <<pc, options, heap, storers, desc, createdTimeStamp, updatedTimeStamp, watcherVars, uidVars, applied, computedVars, viewVars, peerVars>>

\* view = instance[key]: the caller keeps the accessor object that the getter
\* of an object field built over the container stored at that moment
TakeView(key) ==
  /\ pc = "ready"
  /\ ~view.held
  /\ key \in DOMAIN desc
  /\ desc[key] = "object"
  /\ LET r == ReadProp(storers, desc, key)
     IN view' = IF r.threw THEN view
                ELSE [held |-> TRUE, key |-> key, data |-> storers[key], last |-> "take",
                      val |-> Undef]
  /\ UNCHANGED <<modelVars, watcherVars, uidVars, applied, computedVars, peerVars>>

\* view[p], read through the accessor object: the getter closes over the
\* container the view was built on (data[key] in reactiveGetter)
viewRead(h, vw, p) ==
  LET x == PropOf(h, vw.data, p)
  IN IF isPlainObject(h, x) THEN View(x.v) ELSE x

\* view[p] = val for a property p the accessor object defines: the nested
\* reactiveSetter runs
ViewWrite(p, val) ==
  /\ pc = "ready"
  /\ now < MaxClock
  /\ view.held
  /\ heap[view.data.v].props[p] # Absent
  /\ Tick
  /\ LET n == nestedReactiveSetter(watchers, heap, view.key, val)
     IN /\ watchers' = n.watchers
        /\ last' = Did("viewWrite", view.key, val, <<>>, <<p>>, n.threw, <<>>, n.calls)
  /\ view' = [view EXCEPT !.last = p, !.val = val]
  /\ UNCHANGED <<pc, options, heap, storers, desc, createdTimeStamp, updatedTimeStamp,
                 watcherVars, uidVars, applied, computedVars, peerVars>>

Next ==
  \/ \E arg \in ConstructArgs : Construct(arg)
  \/ \E key \in CallKeys : \E value \in WriteValues(key) : SetValue(key, value)
  \/ \E data \in UpdateInputs : UpdateData(data)
  \/ \E key \in UnionKeys : \E val \in WriteValues(key) : AssignProp(key, val)
  \/ \E key \in UnionKeys : \E path \in NestedPaths : \E val \in {Num(2)} : NestedAssign(key, path, val)
  \/ \E key \in WatchKeys : \E opts \in WatchOptions : \E handler \in Handlers :
       Watch(key, opts, handler)

Spec == Init /\ [][Next]_vars

\* ---------------------------------------------------------------- two instances of one class
\* the caller's data object holds an array: {age: 2, sub: [2]}
PeerHeap == [SchemaHeap EXCEPT ![CallerObj.v].props["sub"] = CallerArr]
PeerArgs ==
  {a \in ConstructArgs : a.given /\ (a.data = <<>> \/ a.data = <<Entry("profile", CallerObj)>>)}

\* new Model(arg) once more, for a second instance: its Storers are its own
\* (the class fields are initialised per instance), the heap is the same
ConstructPeer(arg) ==
  /\ pc = "ready"
  /\ ~peer.built
  /\ now < MaxClock
  /\ Tick
  /\ LET r == initStorers(heap, EmptyMap, 1, arg)
     IN /\ heap' = r.h
        /\ peer' = IF r.threw THEN peer
                   ELSE [built |-> TRUE, storers |-> r.st, desc |-> defineDataProperty(r.h, r.st)]
        /\ last' = Did("newPeer", "", Undef, arg.data, <<arg.given>>, r.threw, <<>>, <<>>)
  /\ LET u == nextUid(UIDCounter)
     IN /\ uids' = Append(uids, [who |-> "peer", uid |-> u.uid])
        /\ UIDCounter' = u.counter
  /\ UNCHANGED <<pc, options, storers, desc, watchers, createdTimeStamp, updatedTimeStamp,
                 watcherVars, applied, computedVars, viewVars>>

InitPeers ==
  /\ heap = PeerHeap
  /\ pc = "new"
  /\ options = [given |-> FALSE, data |-> <<>>]
  /\ storers = EmptyMap
  /\ desc = EmptyMap
  /\ watchers = EmptyMap
  /\ createdTimeStamp = 0
  /\ updatedTimeStamp = 0
  /\ now = 0
  /\ last = NoLast
  /\ WatcherInit
  /\ UidInit
  /\ applied = NoApplied
  /\ ComputedInit
  /\ ViewInit
  /\ PeerInit

NextPeers ==
  \/ \E arg \in PeerArgs : Construct(arg)
  \/ \E arg \in PeerArgs : ConstructPeer(arg)
  \/ \E key \in {"profile", "list", "count"} : \E value \in {Num(2), CallerObj, CallerArr} :
       SetValue(key, value)
  \/ \E key \in {"profile", "list", "count"} : \E val \in {Num(2), CallerObj, CallerArr} :
       AssignProp(key, val)
  \/ \E key \in {"profile", "kind"} : \E path \in NestedPaths : \E val \in {Num(7)} :
       NestedAssign(key, path, val)
  \/ \E key \in {"profile", "list"} : \E opts \in {o \in WatchOptions : o.form = "function"} :
       \E handler \in {"ok"} : Watch(key, opts, handler)

SpecPeers == InitPeers /\ [][NextPeers]_vars

\* ---------------------------------------------------------------- the constructor's argument
NoData == [k |-> "absent", v |-> Undef, entries |-> <<>>]
DataValue(v) == [k |-> "value", v |-> v, entries |-> <<>>]
DataObject(entries) == [k |-> "object", v |-> Undef, entries |-> entries]
RawEntries ==
  { <<>>,
    <<Entry("count", Num(2))>>,
    <<Entry("profile", CallerObj)>>,
    <<Entry("count", Num(2)), Entry("list", CallerArr)>> }
RawData ==
  { NoData, DataValue(Num(1)), DataValue(Null), DataValue(CallerArr),
    DataObject(<<>>),
    DataObject(<<Entry("count", Num(3))>>),
    DataObject(<<Entry("profile", CallerObj)>>),
    DataObject(<<Entry("count", Num(3)), Entry("nope", Num(1))>>) }
RawArgs == {[given |-> TRUE, entries |-> e, wrapped |-> d] : e \in RawEntries, d \in RawData}

NextConstructor ==
  \/ \E raw \in RawArgs : ConstructRaw(raw)
  \/ \E key \in {"count"} : \E value \in {Num(2), Num(3)} : SetValue(key, value)

SpecConstructor == Init /\ [][NextConstructor]_vars

\* ---------------------------------------------------------------- a constructed instance and its watchers
\* the instance after new Model({})
WatchedArgs == {a \in ConstructArgs : a.given /\ a.data = <<>>}
WatchedKeys == {"count", "profile"}
WatchedOptions == {o \in WatchOptions : o.form = "function" \/ o.deep # o.immediate}
WatchedInit ==
  /\ \E arg \in WatchedArgs :
       LET r == initStorers(SchemaHeap, EmptyMap, 1, arg)
       IN /\ ~r.threw
          /\ options = arg
          /\ heap = r.h
          /\ storers = r.st
          /\ desc = defineDataProperty(r.h, r.st)
  /\ pc = "ready"
  /\ watchers = EmptyMap
  /\ createdTimeStamp = 0
  /\ updatedTimeStamp = 0
  /\ now = 0
  /\ last = NoLast
  /\ WatcherInit
  /\ UIDCounter = nextUid(0).counter
  /\ uids = <<[who |-> "self", uid |-> nextUid(0).uid]>>
  /\ applied = NoApplied
  /\ ComputedInit
  /\ ViewInit
  /\ PeerInit

NextWatched ==
  \/ \E key \in WatchedKeys : \E opts \in WatchedOptions : \E handler \in Handlers :
       Watch(key, opts, handler)
  \/ \E key \in {"count"} : \E opts \in {o \in WatchedOptions : o.form = "function"} :
       \E handler \in WriteBackHandlers : Watch(key, opts, handler)
  \/ \E key \in WatchedKeys : \E val \in {Num(2), CallerObj} : AssignProp(key, val)
  \/ \E key \in {"profile"} : \E value \in {CallerObj} : SetValue(key, value)
  \/ \E key \in {"profile"} : TakeView(key)
  \/ \E p \in {"age"} : \E val \in {Num(7)} : ViewWrite(p, val)

SpecWatched == WatchedInit /\ [][NextWatched]_vars

\* ---------------------------------------------------------------- several instances
MaxOthers == 3
\* the classes whose instances draw on the same module counter
OtherClasses == {"DataModel", "ExtendDataModel"}

\* new cls(...) for a further instance: the field initialiser takes the next
\* uid whether or not the constructor body completes
NewOther(cls) ==
  /\ Cardinality({i \in 1..Len(uids) : uids[i].who # "self"}) < MaxOthers
  /\ LET u == nextUid(UIDCounter)
     IN /\ uids' = Append(uids, [who |-> cls, uid |-> u.uid])
        /\ UIDCounter' = u.counter
  /\ UNCHANGED <<modelVars, watcherVars, applied, computedVars, viewVars, peerVars>>

NextUid ==
  \/ \E arg \in ConstructArgs : Construct(arg)
  \/ \E cls \in OtherClasses : NewOther(cls)
  \/ \E key \in {"count", "kind"} : \E value \in {Num(2)} : SetValue(key, value)

SpecUid == Init /\ [][NextUid]_vars

\* ---------------------------------------------------------------- a Watcher on its own
\* values emitted to the stand-alone watcher: scalars, NaN, two plain
\* objects and two arrays
EmitValues == {Undef, Null, NaN, Num(0), Num(2), Str(1), Ref(1), Ref(5), Ref(2), Ref(6)}

\* watcher = new Watcher({data, deep, immediate, handler})
WNew(data, deep, immediate, handler) ==
  /\ emitted.op = "none"
  /\ LET nw == newWatcher([data |-> data, deep |-> deep, immediate |-> immediate,
                           handler |-> handler])
     IN /\ watcher' = IF nw.threw THEN watcher ELSE nw.w
        /\ emitted' = [NoEmitted EXCEPT !.op = "new", !.newData = data, !.calls = nw.calls,
                                        !.threw = nw.threw]
  /\ UNCHANGED <<modelVars, uidVars, applied, computedVars, viewVars, peerVars>>

\* watcher.emit(newData)
WEmit(newData) ==
  /\ watcher.built
  /\ emitted.n < MaxEmits
  /\ LET e == emit(heap, watcher, newData)
     IN /\ watcher' = e.w
        /\ emitted' = [op |-> "emit", n |-> emitted.n + 1, newData |-> newData,
                       calls |-> e.calls, threw |-> e.threw, pre |-> watcher,
                       prevNewData |-> emitted.newData,
                       prevFired |-> emitted.op = "emit" /\ emitted.calls # <<>>,
                       prevThrew |-> emitted.op = "emit" /\ emitted.threw]
  /\ UNCHANGED <<modelVars, uidVars, applied, computedVars, viewVars, peerVars>>

NextWatcher ==
  \/ \E data \in EmitValues : \E deep, immediate \in BOOLEAN : \E handler \in Handlers :
       WNew(data, deep, immediate, handler)
  \/ \E newData \in EmitValues : WEmit(newData)

SpecWatcher == Init /\ [][NextWatcher]_vars

\* ---------------------------------------------------------------- the helpers on their own
\* heaps to apply cloneDeep, merge and getValue on: a target object (1) and
\* a source object (2) with every combination of entries, a nested object
\* for each (3, 4), an array holding an object (5) and an array of numbers (6)
OpsHeap(tn, ta, ts, sn, sa, ss, un) ==
  [a \in Addrs |->
     CASE a = 1 -> ObjCell([NoProps EXCEPT !["name"] = tn, !["age"] = ta, !["sub"] = ts])
       [] a = 2 -> ObjCell([NoProps EXCEPT !["name"] = sn, !["age"] = sa, !["sub"] = ss])
       [] a = 3 -> ObjCell([NoProps EXCEPT !["name"] = Str(1), !["age"] = Num(30)])
       [] a = 4 -> ObjCell([NoProps EXCEPT !["age"] = un])
       [] a = 5 -> ArrCell(<<Num(1), Ref(3)>>)
       [] a = 6 -> ArrCell(<<Num(2)>>)
       [] OTHER -> FreeCell]
OpsHeaps ==
  { OpsHeap(tn, ta, ts, sn, sa, ss, un) :
      tn \in {Absent, Str(1)}, ta \in {Absent, Num(1)}, ts \in {Absent, Ref(3), Ref(5), Num(5)},
      sn \in {Absent, Undef, Str(0), Str(2)}, sa \in {Absent, Null, Bool(FALSE), Num(0), Num(2)},
      ss \in {Absent, Ref(4), Ref(6), Num(0)}, un \in {Num(0), Num(7)} }
CloneInputs == {Ref(1), Ref(2), Ref(5), Ref(6), Num(2), Str(1), Null, Undef}
MergeTargets == {Ref(1), Ref(5)}
MergeSources == {Ref(2)}
DefaultInputs == {Ref(1), Ref(5), Num(0), Null, Undef}
NewValInputs == {Undef, Null, Num(2), Ref(2), Ref(6)}
PathTargets == {Ref(1)}
PathInputs == {<<"age">>, <<"sub", "age">>, <<"name", "age">>, <<"sub", "sub", "age">>}
PathValues == {Num(9), Ref(6)}

InitOps ==
  /\ heap \in OpsHeaps
  /\ pc = "new"
  /\ options = [given |-> FALSE, data |-> <<>>]
  /\ storers = EmptyMap
  /\ desc = EmptyMap
  /\ watchers = EmptyMap
  /\ createdTimeStamp = 0
  /\ updatedTimeStamp = 0
  /\ now = 0
  /\ last = NoLast
  /\ WatcherInit
  /\ UidInit
  /\ applied = NoApplied
  /\ ComputedInit
  /\ ViewInit
  /\ PeerInit

Applied(op, args, r) ==
  /\ applied.op = "none"
  /\ heap' = r.h
  /\ applied' = [op |-> op, args |-> args, h |-> heap, r |-> r]
  /\ UNCHANGED <<pc, options, storers, desc, watchers, createdTimeStamp, updatedTimeStamp, now, last,
                 watcherVars, uidVars, computedVars, viewVars, peerVars>>

ApplyCloneDeep(val) == Applied("cloneDeep", <<val>>, cloneDeep(heap, val))
ApplyMerge(targetDict, mergeDict) ==
  Applied("merge", <<targetDict, mergeDict>>, merge(heap, targetDict, mergeDict))
ApplyGetValue(defaultVal, newVal) ==
  Applied("getValue", <<defaultVal, newVal>>, getValue(heap, defaultVal, newVal))
ApplySetValueByPath(target, pathList, value) ==
  Applied("setValueByPath", <<target, pathList, value>>, setValueByPath(heap, target, pathList, value))

NextOps ==
  \/ \E val \in CloneInputs : ApplyCloneDeep(val)
  \/ \E targetDict \in MergeTargets : \E mergeDict \in MergeSources : ApplyMerge(targetDict, mergeDict)
  \/ \E defaultVal \in DefaultInputs : \E newVal \in NewValInputs : ApplyGetValue(defaultVal, newVal)
  \/ \E target \in PathTargets : \E pathList \in PathInputs : \E value \in PathValues :
       ApplySetValueByPath(target, pathList, value)

SpecOps == InitOps /\ [][NextOps]_vars

\* ---------------------------------------------------------------- computed fields
MaxComputedOps == 4

\* new Computer(options): options.get/options.set are the closures built by
\* DataModel.computed from a function ("function"), from {get} ("get") or
\* from {get, set} ("getset")
newComputer(form) == [form |-> form, value |-> Undef, computed |-> FALSE]

\* the getter the caller registers: function () { return this.count + this.count }
userGetter(st, ds) ==
  LET c == ReadProp(st, ds, "count").v
  IN CASE c.k = "num" -> Num(c.v + c.v)
       [] c.k = "null" -> Num(0)
       [] OTHER -> NaN

\* $get as it would be if it left the flag alone
computerGetKeepsFlag(c, st, ds) == [c EXCEPT !.value = userGetter(st, ds)]

\* Computer.$get(): this._value = this.$options.get(); this._computed = true
computerGet(c, st, ds) == [c EXCEPT !.value = userGetter(st, ds), !.computed = TRUE]

\* $value as in the earlier Computer, which consults the flag
computerValueMemoized(c, st, ds) ==
  IF c.computed THEN [c |-> c, ret |-> c.value, gets |-> 0]
  ELSE LET c1 == computerGet(c, st, ds) IN [c |-> c1, ret |-> c1.value, gets |-> 1]

\* Computer.$value: this.$get(); return this._value.  Result: the computer,
\* the value returned and the number of calls of the caller's getter
computerValue(c, st, ds) ==
  LET c1 == computerGet(c, st, ds) IN [c |-> c1, ret |-> c1.value, gets |-> 1]

\* Computer.$set(val), which is the computedSetter closure of
\* DataModel.computed: an empty function for the function form,
\* options.set.call(self, val) otherwise.  Result: the calls of the
\* caller's setter and whether a TypeError was raised
computerSet(c, val) ==
  CASE c.form = "function" -> [sets |-> <<>>, threw |-> FALSE]
    [] c.form = "get" -> [sets |-> <<>>, threw |-> TRUE]
    [] OTHER -> [sets |-> <<[this |-> "self", args |-> <<val>>]>>, threw |-> FALSE]

\* DataModel.computed(key, options) on an instance with the computers cs and
\* the data accessors ds: the Computer is stored before
\* Object.defineProperty(this, key, ...), which throws for a key that
\* already has a (non configurable) accessor
computed(cs, ds, key, form) ==
  [computers |-> (key :> newComputer(form)) @@ cs,
   errors |-> IF key \in UnionKeys THEN <<[level |-> "error", key |-> key]>> ELSE <<>>,
   threw |-> key \in DOMAIN ds \/ key \in DOMAIN cs]

\* the keys whose accessor on the instance is the proxyComputedGetter/Setter pair
ComputedKeys == DOMAIN computers \ DOMAIN desc

ComputedNames == {"full", "count"}
ComputedForms == {"function", "get", "getset"}

CDid(op, key, form, val, ret, gets, sets, errors, threw) ==
  [op |-> op, n |-> cstep.n + 1, key |-> key, form |-> form, val |-> val, ret |-> ret,
   gets |-> gets, sets |-> sets, errors |-> errors, threw |-> threw,
   reads |-> cstep.reads, prevReads |-> cstep.reads,
   pre |-> [computers |-> computers, storers |-> storers, watchers |-> watchers,
            updated |-> updatedTimeStamp]]

\* instance.computed(key, options)
Computed(key, form) ==
  /\ pc = "ready"
  /\ cstep.n < MaxComputedOps
  /\ LET r == computed(computers, desc, key, form)
     IN /\ computers' = r.computers
        /\ cstep' = CDid("computed", key, form, Undef, Undef, 0, <<>>, r.errors, r.threw)
  /\ UNCHANGED <<modelVars, watcherVars, uidVars, applied, viewVars, peerVars>>

\* a read of instance[key] for a computed key
ReadComputed(key) ==
  /\ pc = "ready"
  /\ cstep.n < MaxComputedOps
  /\ key \in ComputedKeys
  /\ LET r == computerValue(computers[key], storers, desc)
     IN /\ computers' = [computers EXCEPT ![key] = r.c]
        /\ cstep' = [CDid("read", key, computers[key].form, Undef, r.ret, r.gets, <<>>, <<>>, FALSE)
                       EXCEPT !.reads = (key :> [storers |-> storers, ret |-> r.ret, c |-> r.c])
                                       @@ cstep.reads]
  /\ UNCHANGED <<modelVars, watcherVars, uidVars, applied, viewVars, peerVars>>

\* instance[key] = val for a computed key
WriteComputed(key, val) ==
  /\ pc = "ready"
  /\ cstep.n < MaxComputedOps
  /\ key \in ComputedKeys
  /\ LET r == computerSet(computers[key], val)
     IN cstep' = CDid("write", key, computers[key].form, val, Undef, 0, r.sets, <<>>, r.threw)
  /\ UNCHANGED <<modelVars, watcherVars, uidVars, applied, computers, viewVars, peerVars>>

NextComputed ==
  \/ \E arg \in ConstructArgs : Construct(arg)
  \/ \E key \in {"count"} : \E value \in {Num(2), Num(3)} : SetValue(key, value)
  \/ \E key \in ComputedNames : \E form \in ComputedForms : Computed(key, form)
  \/ \E key \in ComputedNames : ReadComputed(key)
  \/ \E key \in ComputedNames : \E val \in {Num(5)} : WriteComputed(key, val)

SpecComputed == Init /\ [][NextComputed]_vars

\* ---------------------------------------------------------------- properties
RECURSIVE DeepEqual(_, _, _, _)
\* x in heap h1 and y in heap h2 have the same shape and the same leaves
DeepEqual(h1, x, h2, y) ==
  IF x.k = "ref" /\ y.k = "ref"
  THEN LET c1 == h1[x.v]
           c2 == h2[y.v]
       IN /\ c1.kind = c2.kind
          /\ Len(c1.elems) = Len(c2.elems)
          /\ \A i \in 1..Len(c1.elems) : DeepEqual(h1, c1.elems[i], h2, c2.elems[i])
          /\ \A p \in PKeys : DeepEqual(h1, c1.props[p], h2, c2.props[p])
  ELSE x = y

RECURSIVE Reach(_, _)
\* the containers reachable from x
Reach(h, x) ==
  IF x.k # "ref" THEN {}
  ELSE {x.v} \cup UNION {Reach(h, h[x.v].props[p]) : p \in PKeys}
             \cup UNION {Reach(h, h[x.v].elems[i]) : i \in 1..Len(h[x.v].elems)}

\* the stored value an accessor object mirrors
ViewTarget(val) == IF val.k = "view" THEN Ref(val.v) ELSE val
\* what a read returned is the written value x (an accessor object counts
\* as equal to the container it mirrors)
SameValue(read, x) == IF read.k = "view" THEN x.k = "ref" /\ x.v = read.v ELSE read = x
IsContainer(h, val) == isArray(h, val) \/ (val.k = "ref" /\ isPlainObject(h, val))
MutableKeys == StructureKeys \ ImmutableKeys
\* the values JavaScript treats as false in a condition
Falsy(val) == val \in {Num(0), Str(0), Bool(FALSE), Null, Undef, NaN}

\* C1: for every key k of IMMUTABLE_STRUCTURE (also one that STRUCTURE
\* declares too), construction with any supplied data leaves instance[k] a
\* deep clone of the constant, sharing no container with it, and
\* setValue(k, v) changes neither the store nor the heap.
C1_ImmutableFixed ==
  /\ (last.op = "new" /\ pc = "ready") =>
       \A k \in ImmutableKeys :
         LET r == ReadProp(storers, desc, k)
         IN /\ k \in DOMAIN storers
            /\ ~r.threw
            /\ ViewTarget(r.v) = storers[k]
            /\ DeepEqual(heap, storers[k], SchemaHeap, IMMUTABLE_STRUCTURE[k])
            /\ Reach(heap, storers[k]) \cap Reach(SchemaHeap, IMMUTABLE_STRUCTURE[k]) = {}
  /\ (last.op = "setValue" /\ last.key \in ImmutableKeys) =>
       /\ storers = last.pre.storers
       /\ heap = last.pre.heap
\* setValue on the immutable key "kind" of an instance whose construction
\* data supplied a value for "kind"
C1_Witness ==
  /\ last.op = "setValue" /\ last.key = "kind" /\ last.val = Num(2)
  /\ Lookup(options.data, "kind") = CallerObj
  /\ DeepEqual(heap, storers["kind"], SchemaHeap, IMMUTABLE_STRUCTURE["kind"])

\* C2: after any public operation the stored value of every immutable field
\* is what it was before the operation (hence what construction stored).
C2_ImmutableNeverChanges ==
  (pc = "ready" /\ last.op # "new") =>
    \A k \in ImmutableKeys : storers[k] = last.pre.storers[k]

\* C3: setValue with a key of IMMUTABLE_STRUCTURE, or a key not in
\* STRUCTURE, changes no store, watcher, timestamp or heap cell, calls no
\* handler, logs one warning, does not throw and returns the instance.
C3_RejectedWriteIsNoOp ==
  (last.op = "setValue" /\ (last.key \in ImmutableKeys \/ last.key \notin StructureKeys)) =>
    /\ storers = last.pre.storers
    /\ watchers = last.pre.watchers
    /\ updatedTimeStamp = last.pre.updated
    /\ heap = last.pre.heap
    /\ last.calls = <<>>
    /\ Len(last.warns) = 1 /\ last.warns[1].level = "warn" /\ last.warns[1].key = last.key
    /\ ~last.threw
    /\ last.ret = "self"
\* a rejected write of a new value to a watched immutable field
C3_Witness ==
  /\ last.op = "setValue" /\ last.key \in ImmutableKeys
  /\ last.key \in DOMAIN watchers
  /\ last.val # storers[last.key]

\* C4: after setValue(k, x) on a mutable key, reading instance[k] yields x.
C4_RoundTrip ==
  (last.op = "setValue" /\ last.key \in MutableKeys) =>
    LET r == ReadProp(storers, desc, last.key)
    IN ~r.threw /\ SameValue(r.v, last.val)

\* C5: with a shallow watcher on a mutable field, setValue with a value not
\* identical to the current one calls the handler exactly once, with the new
\* value as second argument.
C5_ShallowWatcherFiresOnSetValue ==
  (/\ last.op = "setValue" /\ last.key \in MutableKeys
   /\ last.key \in DOMAIN last.pre.watchers
   /\ ~last.pre.watchers[last.key].deep
   /\ ~StrictEq(last.val, last.pre.storers[last.key])) =>
    /\ Len(last.calls) = 1
    /\ last.calls[1].args = <<last.pre.watchers[last.key].data, last.val>>

\* C6: with a shallow watcher on a mutable field, writing the very value the
\* field stores, by setValue or by property assignment, calls no handler.
C6_ShallowWatcherSilentOnSameReference ==
  (/\ last.op \in {"setValue", "assign"}
   /\ last.key \in MutableKeys
   /\ last.key \in DOMAIN last.pre.watchers
   /\ ~last.pre.watchers[last.key].deep
   /\ StrictEq(last.val, last.pre.storers[last.key])) =>
    last.calls = <<>>

\* C7: with a deep watcher on a container-valued field, setValue with the
\* container the field already holds calls the handler.
C7_DeepWatcherFiresOnSetValue ==
  (/\ last.op = "setValue" /\ last.key \in MutableKeys
   /\ last.key \in DOMAIN last.pre.watchers
   /\ last.pre.watchers[last.key].deep
   /\ IsContainer(heap, last.val)
   /\ StrictEq(last.val, last.pre.storers[last.key])) =>
    last.calls # <<>>

\* C8: emit(newValue) calls the handler if and only if not (the baseline is
\* identical to newValue and (newValue is neither array nor plain object, or
\* deep mode is off)).
C8_EmitFiresIff ==
  emitted.op = "emit" =>
    ((emitted.calls # <<>>) <=>
       ~(/\ StrictEq(emitted.pre.data, emitted.newData)
         /\ (~IsContainer(heap, emitted.newData) \/ ~emitted.pre.deep)))

\* C9 as stated: a firing emit calls the handler once with (baseline,
\* newValue) and leaves the baseline at newValue; an emit that does not fire
\* leaves the baseline alone; two consecutive emissions of the same scalar
\* fire at most once.
C9_EmitUpdatesBaseline ==
  emitted.op = "emit" =>
    /\ emitted.calls # <<>> =>
         /\ emitted.calls = <<Call(emitted.pre.handler, <<emitted.pre.data, emitted.newData>>)>>
         /\ watcher.data = emitted.newData
    /\ emitted.calls = <<>> => watcher = emitted.pre
    /\ (/\ emitted.n >= 2
        /\ emitted.newData = emitted.prevNewData
        /\ ~IsContainer(heap, emitted.newData)) =>
         ~(emitted.calls # <<>> /\ emitted.prevFired)

\* C9 amended: a firing emit calls the handler once with (baseline,
\* newValue); the baseline is newValue afterwards if the handler returned and
\* is unchanged if it threw; an emit that does not fire leaves the watcher
\* alone; two consecutive emissions of the same scalar other than NaN fire
\* at most once when the handler returned from the first.
C9_EmitUpdatesBaselineOnReturn ==
  emitted.op = "emit" =>
    /\ emitted.calls # <<>> =>
         /\ emitted.calls = <<Call(emitted.pre.handler, <<emitted.pre.data, emitted.newData>>)>>
         /\ ~emitted.threw => watcher = [emitted.pre EXCEPT !.data = emitted.newData]
         /\ emitted.threw => watcher = emitted.pre
    /\ emitted.calls = <<>> => watcher = emitted.pre /\ ~emitted.threw
    /\ (/\ emitted.n >= 2
        /\ emitted.newData = emitted.prevNewData
        /\ emitted.newData # NaN
        /\ ~emitted.prevThrew
        /\ ~IsContainer(heap, emitted.newData)) =>
         ~(emitted.calls # <<>> /\ emitted.prevFired)
\* the second of two emissions of the scalar 2, the first of which fired
C9_Witness ==
  /\ emitted.op = "emit" /\ emitted.n = 2
  /\ emitted.newData = Num(2) /\ emitted.prevNewData = Num(2)
  /\ emitted.prevFired /\ ~emitted.prevThrew
  /\ emitted.calls = <<>>
  /\ watcher.data = Num(2)

C11_HandlerSeesWrittenValue ==
  (last.op = "assign" /\ last.key \in MutableKeys /\ last.calls # <<>>) =>
    LET r == ReadProp(last.seen, desc, last.key)
    IN /\ last.seen[last.key] = last.val
       /\ ~r.threw
       /\ SameValue(r.v, last.val)
       /\ (last.calls[1].handler = "throw" => last.threw /\ storers[last.key] = last.val)

\* C12: every operation that successfully changes a stored field value
\* (setValue, updateData, a property assignment, a write through a nested
\* accessor) leaves the update timestamp at the time of that operation.
C12_MutationRefreshesTimestamp ==
  ( /\ last.op \in {"setValue", "updateData", "assign", "nested"}
    /\ last.op = "assign" => last.key \in MutableKeys
    /\ ~last.threw
    /\ (storers # last.pre.storers \/ heap # last.pre.heap) )
  => updatedTimeStamp = now

\* C14: after any sequence of updateData, setValue and property writes with
\* arbitrary keys, the stored fields are exactly the keys of the union
\* structure fixed at construction: none is added, none is removed.
C14_StoredKeysAreUnionKeys ==
  /\ pc = "ready" => DOMAIN storers = UnionKeys /\ DOMAIN desc = UnionKeys
  /\ last.op \in {"setValue", "updateData"} => DOMAIN storers = DOMAIN last.pre.storers
C14_Witness ==
  /\ last.op = "setValue" /\ last.key = "nope"
  /\ last.pre.updated > createdTimeStamp
  /\ DOMAIN storers = UnionKeys

C17_NoArgumentConstructs ==
  (last.op = "new" /\ ~options.given) =>
    /\ pc = "ready"
    /\ ~last.threw
    /\ \A k \in MutableKeys :
         k \in DOMAIN storers /\ DeepEqual(heap, storers[k], SchemaHeap, STRUCTURE[k])
    /\ \A k \in ImmutableKeys :
         k \in DOMAIN storers /\ DeepEqual(heap, storers[k], SchemaHeap, IMMUTABLE_STRUCTURE[k])

\* C18: for every key k of STRUCTURE supplied at construction with a plain
\* object v, whatever the kind of the default, construction succeeds and
\* instance[k] is the clone of the default merged with v: entries of the
\* default that v does not override are kept, entries of v appear.
C18_SuppliedObjectIsMerged ==
  last.op = "new" =>
    \A k \in MutableKeys :
      LET v == Lookup(options.data, k)
      IN isPlainObject(heap, v) =>
           /\ pc = "ready"
           /\ ~last.threw
           /\ \A p \in PKeys :
                LET sv == heap[v.v].props[p]
                    dv == PropOf(SchemaHeap, STRUCTURE[k], p)
                    rv == PropOf(heap, storers[k], p)
                IN IF sv = Absent THEN DeepEqual(heap, rv, SchemaHeap, dv)
                   ELSE isPlainObject(heap, sv) \/ rv = (IF Falsy(sv) THEN dv ELSE sv)

\* C13: over any sequence of constructions, of any classes sharing the
\* module counter, the $uid values are pairwise distinct and strictly
\* increasing in construction order, and no later step changes a $uid
\* that was assigned.
C13_UidsIncreaseAndStay ==
  [][ /\ \A i, j \in 1..Len(uids') : i < j => uids'[i].uid < uids'[j].uid
      /\ Len(uids') >= Len(uids)
      /\ \A i \in 1..Len(uids) : uids'[i] = uids[i] ]_vars
C13_Witness ==
  /\ Len(uids) = 3
  /\ uids[1].who = "ExtendDataModel" /\ uids[2].who = "self" /\ uids[3].who = "DataModel"
  /\ last.op = "setValue" /\ last.key = "count"
  /\ uids[2].uid = 1

RECURSIVE MergedInPlace(_, _, _, _)
\* heap h1 holds the object t of heap h0 merged with s, key by key
MergedInPlace(h0, h1, t, s) ==
  \A p \in PKeys :
    LET tv == PropOf(h0, t, p)
        sv == h0[s.v].props[p]
    IN IF sv = Absent THEN h1[t.v].props[p] = h0[t.v].props[p]
       ELSE IF isPlainObject(h0, tv) /\ isPlainObject(h0, sv)
       THEN h1[t.v].props[p] = tv /\ MergedInPlace(h0, h1, tv, sv)
       ELSE PropOf(h1, t, p) = IF Falsy(sv) THEN tv ELSE sv

RECURSIVE PathWritten(_, _, _, _, _, _)
\* in heap h1 the walk from obj along pathList[index..] goes through plain
\* objects only (the one heap h0 had there, or a new one where h0 had none)
\* and ends at value; entries off the path are as in h0
PathWritten(h0, h1, obj, pathList, index, value) ==
  LET key == pathList[index]
      old == IF h0[obj.v].kind = "free" THEN NoProps ELSE h0[obj.v].props
  IN /\ h1[obj.v].kind = "obj"
     /\ \A p \in PKeys \ {key} : h1[obj.v].props[p] = old[p]
     /\ IF index = Len(pathList) THEN h1[obj.v].props[key] = value
        ELSE LET next == h1[obj.v].props[key]
             IN /\ next.k = "ref"
                /\ IF old[key].k = "ref" /\ h0[old[key].v].kind = "obj"
                   THEN next = old[key]
                   ELSE h0[next.v].kind = "free"
                /\ PathWritten(h0, h1, next, pathList, index + 1, value)

\* C21: setValueByPath(root, path, value), for a path of any number of
\* segments, puts value at the final segment, puts a new empty plain object
\* in place of every missing or non-plain-object intermediate segment, leaves
\* the other entries of root as they were, and returns root itself.
C21_SetByPathReturnsRoot ==
  applied.op = "setValueByPath" =>
    /\ ~applied.r.threw
    /\ heap = applied.r.h
    /\ PathWritten(applied.h, applied.r.h, applied.args[1], applied.args[2], 1, applied.args[3])
    /\ applied.r.v = applied.args[1]

\* the containers of the schema: the defaults of STRUCTURE and the constants
\* of IMMUTABLE_STRUCTURE, with everything nested in them
SchemaAddrs ==
  UNION {Reach(SchemaHeap, STRUCTURE[k]) : k \in StructureKeys}
    \cup UNION {Reach(SchemaHeap, IMMUTABLE_STRUCTURE[k]) : k \in ImmutableKeys}

\* C22: no sequence of operations on the instance (construction with any
\* data, setValue, updateData, property writes, nested writes) changes a
\* default of STRUCTURE, a constant of IMMUTABLE_STRUCTURE or anything
\* nested in them.
C22_SchemaNeverModified ==
  \A a \in SchemaAddrs : heap[a] = SchemaHeap[a]
C22_Witness ==
  /\ last.op = "nested" /\ last.key = "profile"
  /\ Lookup(options.data, "profile") = CallerObj
  /\ last.pre.storers["profile"] \notin {STRUCTURE["profile"], CallerObj}
  /\ PropOf(last.pre.heap, last.pre.storers["profile"], "age") = Num(2)
  /\ PropOf(last.pre.heap, last.pre.storers["profile"], "name") = Str(1)
  /\ heap[1].props["age"] = Num(1)

\* C23: a read of a field that holds a plain object or an array never
\* returns the container held in the store: the read succeeds and gives a
\* newly built accessor object, through the field's getter and through
\* $data alike.
C23_ReadNeverExposesStore ==
  pc = "ready" =>
    \A k \in UnionKeys :
      IsContainer(heap, storers[k]) =>
        LET r == ReadProp(storers, desc, k)
        IN /\ ~r.threw
           /\ r.v.k = "view"
           /\ r.v # storers[k]
           /\ getData(storers)[k] # storers[k]

\* C24: a write through a nested accessor path, instance.a.b = v at any
\* depth, reaches the stored value: a read of the same path afterwards
\* yields v, and the other entries of the container are as before.
C24_NestedWriteIsStored ==
  (last.op = "nested" /\ last.key \in MutableKeys /\ ~last.threw) =>
    LET path == last.opts
        top == storers[last.key]
        parent == IF Len(path) = 1 THEN top ELSE PropOf(heap, top, path[1])
        before == IF Len(path) = 1 THEN last.pre.storers[last.key]
                  ELSE PropOf(last.pre.heap, last.pre.storers[last.key], path[1])
    IN /\ ~ReadProp(storers, desc, last.key).threw
       /\ PropOf(heap, parent, path[Len(path)]) = last.val
       /\ parent = before
       /\ \A p \in PKeys \ {path[Len(path)]} :
            PropOf(heap, parent, p) = PropOf(last.pre.heap, before, p)

\* C30: every mutable field can be set to null or undefined: after
\* setValue(k, null) or setValue(k, undefined), whatever kind of value k held
\* at construction, k is still a field and a read of instance[k] returns
\* null or undefined without throwing.
C30_FieldCanBeNulled ==
  (last.op = "setValue" /\ last.key \in MutableKeys /\ last.val \in {Null, Undef}) =>
    /\ last.key \in DOMAIN storers
    /\ last.key \in DOMAIN desc
    /\ ~ReadProp(storers, desc, last.key).threw
    /\ ReadProp(storers, desc, last.key).v = last.val

\* C25: a computed field is consistent with the current data: whatever
\* writes and earlier reads came before, a read of it returns the getter
\* applied to the fields' current values.
C25_ComputedIsCurrent ==
  cstep.op = "read" => cstep.ret = userGetter(cstep.pre.storers, desc)
C25_Witness ==
  /\ cstep.op = "read" /\ cstep.key = "full"
  /\ "full" \in DOMAIN cstep.prevReads
  /\ cstep.prevReads["full"].ret = Num(0)
  /\ cstep.pre.storers["count"] = Num(3)
  /\ cstep.ret = Num(6)

C27_ComputedIsMemoized ==
  ( /\ cstep.op = "read"
    /\ cstep.key \in DOMAIN cstep.prevReads
    /\ cstep.pre.computers[cstep.key].computed
    /\ cstep.prevReads[cstep.key].storers = cstep.pre.storers )
  => cstep.gets = 0 /\ cstep.ret = cstep.prevReads[cstep.key].ret

\* C28: computed(key, options) with a key of the union structure reports an
\* error and carries on: it does not throw, the computed accessor is
\* installed, and reads of instance[key] go to the computed getter.
C28_CollidingComputedIsInstalled ==
  (cstep.op = "computed" /\ cstep.key \in UnionKeys) =>
    /\ cstep.errors # <<>>
    /\ ~cstep.threw
    /\ cstep.key \in ComputedKeys

\* C29: a write to a computed field without a setter of the caller's,
\* registered from a function or from {get} alone, does nothing: it does not
\* throw and changes no store, cached value, watcher or timestamp; with a
\* setter, that setter is called exactly once with the written value, bound
\* to the instance.
C29_WriteToComputed ==
  [][ (cstep'.n = cstep.n + 1 /\ cstep'.op = "write") =>
        /\ ~cstep'.threw
        /\ cstep'.sets = IF cstep'.form = "getset"
                         THEN <<[this |-> "self", args |-> <<cstep'.val>>]>> ELSE <<>>
        /\ UNCHANGED <<storers, heap, computers, watchers, updatedTimeStamp>> ]_vars

\* C33: watch(key, options), in the function form and in the object form,
\* takes as the watcher's baseline the value the field store holds at the
\* time of the call (for a container, that very reference), and changes no
\* field value.
C33_WatchBaselineIsStoredValue ==
  (last.op = "watch" /\ ~(last.opts[1].immediate /\ last.opts[2] = "throw")) =>
    /\ ~last.threw
    /\ last.key \in DOMAIN watchers
    /\ watchers[last.key].data = last.pre.storers[last.key]
    /\ storers = last.pre.storers
    /\ heap = last.pre.heap

\* C35: outside of a handler and when no handler has thrown, the baseline of
\* the watcher attached to a field equals the value most recently written to
\* the field by setValue, updateData or property assignment.
C35_WatcherNeverLags ==
  (/\ last.op \in {"setValue", "updateData", "assign"}
   /\ ~last.threw
   /\ last.key \in MutableKeys
   /\ last.key \in DOMAIN watchers
   /\ storers[last.key] = last.val) =>
    watchers[last.key].data = storers[last.key]

\* C36: a write through a nested accessor (instance.k.sub = v, at any depth)
\* never invokes the watcher of the top-level field k, in deep mode or not,
\* and leaves that watcher's baseline as it was.
C36_NestedWriteNeverNotifies ==
  last.op = "nested" =>
    /\ last.calls = <<>>
    /\ watchers = last.pre.watchers

C36_Witness ==
  /\ last.op = "nested"
  /\ ~last.threw
  /\ last.key \in DOMAIN watchers
  /\ watchers[last.key].deep
  /\ last.opts = <<"age">>
  /\ last.key \in MutableKeys

\* C38: setValue and updateData do not merge: a plain object written to a
\* writable field becomes the stored value itself, replacing the stored
\* container by reference; nothing is cloned or copied, and the entries
\* readable under the field are exactly those of the written object.
C38_WriteReplacesByReference ==
  \A k \in MutableKeys :
    LET given == {last.data[i].key : i \in 1..Len(last.data)}
        written == \/ last.op = "setValue" /\ last.key = k
                   \/ last.op = "updateData" /\ k \in given
        v == IF last.op = "setValue" THEN last.val ELSE Lookup(last.data, k)
    IN (written /\ isPlainObject(last.pre.heap, v)) =>
         /\ storers[k] = v
         /\ heap = last.pre.heap
         /\ \A p \in PKeys : PropOf(heap, storers[k], p) = PropOf(last.pre.heap, v, p)

C38_Witness ==
  /\ last.op = "updateData"
  /\ storers["profile"] = CallerObj
  /\ last.pre.storers["profile"] # CallerObj
  /\ PropOf(last.pre.heap, last.pre.storers["profile"], "name") # Undef
  /\ PropOf(heap, storers["profile"], "name") = Undef

\* C31: a handler that writes the value it was notified of back to its own
\* field, by setValue or by property assignment, is not invoked again by
\* that write, and the outer write returns.
C31_WriteBackTerminates ==
  (/\ last.op = "assign"
   /\ last.key \in DOMAIN last.pre.watchers
   /\ last.pre.watchers[last.key].handler \in WriteBackHandlers) =>
    /\ Len(last.calls) <= 1
    /\ ~last.threw

\* C34: a field has at most one watcher: a successful watch(k, h2) leaves h2
\* as the only watcher of k, whatever watcher k had, and from then on a write
\* to k invokes no handler other than the one attached to k at that moment,
\* a handler that does not write to the field being invoked at most once.
C34_OneWatcherPerField ==
  /\ (last.op = "watch" /\ ~last.threw) =>
       /\ last.key \in DOMAIN watchers
       /\ watchers[last.key].handler = last.opts[2]
       /\ \A k \in DOMAIN last.pre.watchers \ {last.key} : watchers[k] = last.pre.watchers[k]
       /\ \A i \in 1..Len(last.calls) : last.calls[i].handler = last.opts[2]
  /\ last.op = "assign" =>
       /\ \A i \in 1..Len(last.calls) :
            /\ last.key \in DOMAIN last.pre.watchers
            /\ last.calls[i].handler = last.pre.watchers[last.key].handler
       /\ (last.calls # <<>> /\ last.calls[1].handler \notin {"assignBack"}) =>
            Len(last.calls) = 1

\* a second watch on a key replaces a watcher that has another handler
C34_Witness ==
  /\ last.op = "watch" /\ ~last.threw
  /\ last.key \in DOMAIN last.pre.watchers
  /\ last.pre.watchers[last.key].handler = "throw"
  /\ watchers[last.key].handler = "ok"

\* C39: when the handler throws during instance[k] = v the store holds v and
\* the watcher's baseline is left at the previous value; a following write of
\* the same v invokes the handler again, with that stale previous value as
\* its first argument.
C39_ThrowLeavesBaseline ==
  (/\ last.op = "assign"
   /\ last.key \in DOMAIN last.pre.watchers
   /\ last.pre.watchers[last.key].handler = "throw") =>
    /\ last.threw =>
         /\ storers[last.key] = last.val
         /\ watchers[last.key].data = last.pre.watchers[last.key].data
    /\ (/\ StrictEq(last.pre.storers[last.key], last.val)
        /\ ~StrictEq(last.pre.watchers[last.key].data, last.val)) =>
         /\ last.calls = <<Call("throw", <<last.pre.watchers[last.key].data, last.val>>)>>
         /\ last.threw

\* the second of two writes of the same value to a field whose handler
\* throws; the timestamps show that no setValue or updateData came between
C39_Witness ==
  /\ last.op = "assign"
  /\ last.threw
  /\ last.key \in DOMAIN last.pre.watchers
  /\ last.pre.watchers[last.key].handler = "throw"
  /\ last.pre.storers[last.key] = last.val
  /\ last.pre.watchers[last.key].data # last.val
  /\ last.calls = <<Call("throw", <<last.pre.watchers[last.key].data, last.val>>)>>
  /\ updatedTimeStamp = createdTimeStamp
  /\ last.key = "count"

\* C37: after view = instance.k; setValue(k, newObj); view.sub = v, a read of
\* view.sub gives what the container stored when the view was built holds,
\* and the write has been applied to newObj, the container now stored.
C37_StaleViewWritesCurrentStore ==
  (/\ last.op = "viewWrite"
   /\ view.data # storers[view.key]
   /\ isPlainObject(heap, storers[view.key])) =>
    /\ viewRead(heap, view, view.last) = viewRead(last.pre.heap, view, view.last)
    /\ PropOf(heap, storers[view.key], view.last) = view.val

\* C40: the constructor takes a plain-object argument as the construction
\* data unless the argument has a plain-object entry named data; then the
\* fields are initialised from argument.data alone, and no other key of the
\* argument, a schema field's name included, initialises a field.
C40_WrapperOrData ==
  (applied.op = "new" /\ last.op = "new") =>
    LET raw == applied.args[1]
        src == IF raw.wrapped.k = "object" THEN raw.wrapped.entries ELSE raw.entries
        r == initStorers(SchemaHeap, EmptyMap, 1, [given |-> TRUE, data |-> src])
    IN /\ pc = "ready"
       /\ storers = r.st
       /\ heap = r.h
       /\ \A k \in MutableKeys :
            isUndefined(Lookup(src, k)) => DeepEqual(heap, storers[k], SchemaHeap, STRUCTURE[k])

C40_Witness ==
  /\ applied.op = "new" /\ last.op = "new"
  /\ applied.args[1].wrapped = DataObject(<<Entry("profile", CallerObj)>>)
  /\ applied.args[1].entries = <<Entry("count", Num(2)), Entry("list", CallerArr)>>
  /\ storers["count"] = Num(0)
  /\ storers["list"] # CallerArr
  /\ PropOf(heap, storers["profile"], "age") = Num(2)

\* C32: instances are isolated: no setValue, property write, nested-accessor
\* write or watch on one instance changes a field value readable through
\* another instance of the class, also when both were constructed from the
\* same data object.
C32_InstancesIsolated ==
  (peer.built /\ last.op \in {"setValue", "assign", "nested", "watch"}) =>
    \A k \in DOMAIN peer.storers :
      DeepEqual(heap, peer.storers[k], last.pre.heap, peer.storers[k])

====
